---- MODULE Spec2Model ----
(***************************************************************************)
(* JoystickGripperInterface (rqt_rover_gui): joystick deflection of the    *)
(* wrist and finger axes is integrated into a commanded angle per joint    *)
(* by two QTimer handlers and published on /<rover>/wristAngle and         *)
(* /<rover>/fingerAngle.                                                   *)
(*                                                                         *)
(* Reals are fixed-point integers: 1.0 is One (ten-thousandths), so        *)
(* 0.001 is 10, 0.05 is 500, 0.1 is 1000.  All inputs are multiples of     *)
(* 0.001, for which vector * changeRate is exact; binary rounding of the   *)
(* float fields is not modelled.                                           *)
(*                                                                         *)
(* All handlers run to completion on the one Qt event loop, so every       *)
(* handler is one atomic action.                                           *)
(***************************************************************************)
EXTENDS Integers, Sequences, FiniteSets, TLC

One == 10 * 1000

Mul(a, b) == (a * b) \div One

fabs(x) == IF x < 0 THEN -x ELSE x

(* ---- values set by the (node handle, rover name) constructor ---------- *)
wristAngleMin == 0
wristAngleMax == 10000
fingerAngleMin == 0
fingerAngleMax == 20000
fingerAngleChangeRate == 1000
wristAngleChangeRate == 1000
commandReapplyRate == 100
stickCenterTolerance == 500
\* the literal 0.001 of the two handlers
SmallAngle == 10

(* ---- bounds of the exploration ---------------------------------------- *)
\* the clock advances in steps of commandReapplyRate / StepsPerPeriod ms
StepsPerPeriod == 2

\* the rover given to the constructor, and the rovers changeRovers selects
FirstRover == "achilles"

Rovers == {"achilles", "ajax"}

\* joystick samples of the main specification (full and half deflection, and
\* one sample inside the dead zone)
Vecs == {-10000, -5000, 200, 10000}

\* joystick samples of the single-joint specifications: the dead-zone
\* boundary (0.049, 0.05), and pairs of deflections whose steps differ by
\* less than 0.001
FineVecs == {-10000, -9950, -500, -490, 0, 490, 500, 9950, 10000}

\* values an uninitialised float member may hold
Indeterminate == {-31410, 27180}

VARIABLES
    pc,                                  \* "running" | "destroyed" (the object
                                         \* is gone) | "crashed" (process died)
    ready,
    roverName,
    wristAngle,
    fingerAngle,
    wristJoystickVector,
    fingerJoystickVector,
    joystickGripperWristControlTimer,
    joystickGripperFingerControlTimer,
    gripperWristAnglePublisher,
    gripperFingerAnglePublisher,
    lastCall,                            \* the handler that ran last, its
                                         \* argument, and the joint angle it
                                         \* started from (timer handlers)
    events,                              \* what that handler did to the bus
    copy,                                \* the object made by the copy constructor
    deleted                              \* delete calls applied to each QTimer
                                         \* the constructor made

vars == <<pc, ready, roverName, wristAngle, fingerAngle, wristJoystickVector,
          fingerJoystickVector, joystickGripperWristControlTimer,
          joystickGripperFingerControlTimer, gripperWristAnglePublisher,
          gripperFingerAnglePublisher, lastCall, events, copy, deleted>>

(* ---- QTimer ----------------------------------------------------------- *)
\* valid: the pointer refers to a live QTimer made by the constructor; it
\* is FALSE for a pointer that was never set and for one whose QTimer has
\* been deleted.
\* remaining: clock steps until the next timeout() while active.
NewTimer == [valid |-> TRUE, active |-> FALSE, interval |-> 0, remaining |-> 0]

\* the pointer member of a default-constructed object: never assigned
NoTimer == [valid |-> FALSE, active |-> FALSE, interval |-> 0, remaining |-> 0]

Quanta(msec) == (msec * StepsPerPeriod) \div commandReapplyRate

\* variant: start() on a running timer leaves its pending timeout alone
TimerStartKeepsPhase(t, msec) ==
    IF t.active THEN [t EXCEPT !.interval = msec]
    ELSE [t EXCEPT !.active = TRUE, !.interval = msec, !.remaining = Quanta(msec)]

\* QTimer::start(msec): a running timer is stopped and started again, so
\* the full interval lies ahead once more
TimerStart(t, msec) ==
    [t EXCEPT !.active = TRUE, !.interval = msec, !.remaining = Quanta(msec)]

\* variant: the stop() call is missing
TimerStopIgnored(t) == t

\* QTimer::stop()
TimerStop(t) == [t EXCEPT !.active = FALSE, !.remaining = 0]

\* after timeout() a repeating timer waits its interval again
TimerRearm(t) == [t EXCEPT !.remaining = Quanta(t.interval)]

Due(t) == t.valid /\ t.active /\ t.remaining = 0

(* ---- ros::Publisher --------------------------------------------------- *)
NoTopic == <<>>

Topic(rover, joint) == <<rover, joint>>

\* a default-constructed ros::Publisher
NoPublisher == [valid |-> FALSE, topic |-> NoTopic]

\* variant: the topic is built from the member roverName, not the argument
AdvertiseWristOnOldRover(rover) == [valid |-> TRUE, topic |-> Topic(roverName, "wristAngle")]

\* nh.advertise<std_msgs::Float32>("/"+roverName+"/wristAngle", 10, this)
AdvertiseWrist(rover) == [valid |-> TRUE, topic |-> Topic(rover, "wristAngle")]

AdvertiseFinger(rover) == [valid |-> TRUE, topic |-> Topic(rover, "fingerAngle")]

Event(kind, topic, data) == [ev |-> kind, topic |-> topic, data |-> data]

\* Publisher::publish on an invalid publisher sends nothing
Publish(pub, data) ==
    IF pub.valid THEN <<Event("publish", pub.topic, data)>> ELSE <<>>

\* Publisher::shutdown on an invalid publisher does nothing
Shutdown(pub) ==
    IF pub.valid THEN <<Event("shutdown", pub.topic, 0)>> ELSE <<>>

Advertised(pub) == <<Event("advertise", pub.topic, 0)>>

Thrown == <<Event("throw", NoTopic, 0)>>

Call(op, vec, name, from) == [op |-> op, vec |-> vec, name |-> name, from |-> from]

(* ---- constructors ----------------------------------------------------- *)
\* no copy has been made
NoCopy == [state |-> "none", ready |-> FALSE, timers |-> FALSE, publishers |-> FALSE]

NoneDeleted == [wrist |-> 0, finger |-> 0]

\* JoystickGripperInterface(): only ready is assigned
DefaultConstructed ==
    /\ pc = "running"
    /\ ready = FALSE
    /\ roverName = ""
    /\ wristAngle \in Indeterminate
    /\ fingerAngle \in Indeterminate
    /\ wristJoystickVector \in Indeterminate
    /\ fingerJoystickVector \in Indeterminate
    /\ joystickGripperWristControlTimer = NoTimer
    /\ joystickGripperFingerControlTimer = NoTimer
    /\ gripperWristAnglePublisher = NoPublisher
    /\ gripperFingerAnglePublisher = NoPublisher
    /\ lastCall = Call("JoystickGripperInterface", 0, "", 0)
    /\ events = <<>>
    /\ copy = NoCopy
    /\ deleted = NoneDeleted

\* variant: the constructor returns without the final ready = true
ConstructedNotReady(name) ==
    /\ pc = "running"
    /\ ready = FALSE
    /\ roverName = name
    /\ wristAngle = 0
    /\ fingerAngle = 0
    /\ wristJoystickVector = 0
    /\ fingerJoystickVector = 0
    /\ joystickGripperWristControlTimer = NewTimer
    /\ joystickGripperFingerControlTimer = NewTimer
    /\ gripperWristAnglePublisher = AdvertiseWrist(name)
    /\ gripperFingerAnglePublisher = AdvertiseFinger(name)
    /\ lastCall = Call("JoystickGripperInterface", 0, name, 0)
    /\ events = Advertised(AdvertiseWrist(name)) \o Advertised(AdvertiseFinger(name))
    /\ copy = NoCopy
    /\ deleted = NoneDeleted

\* JoystickGripperInterface(nh, roverName)
Constructed(name) ==
    /\ pc = "running"
    /\ ready = TRUE
    /\ roverName = name
    /\ wristAngle = 0
    /\ fingerAngle = 0
    /\ wristJoystickVector = 0
    /\ fingerJoystickVector = 0
    /\ joystickGripperWristControlTimer = NewTimer
    /\ joystickGripperFingerControlTimer = NewTimer
    /\ gripperWristAnglePublisher = AdvertiseWrist(name)
    /\ gripperFingerAnglePublisher = AdvertiseFinger(name)
    /\ lastCall = Call("JoystickGripperInterface", 0, name, 0)
    /\ events = Advertised(AdvertiseWrist(name)) \o Advertised(AdvertiseFinger(name))
    /\ copy = NoCopy
    /\ deleted = NoneDeleted

Init == DefaultConstructed \/ Constructed(FirstRover)

(* ---- moveWrist / moveFingers ------------------------------------------ *)
\* variant: the ready test is missing
NeverThrows == FALSE

\* if (!ready) throw JoystickGripperInterfaceNotReadyException();
NotReady == ~ready

\* variant: the negation is missing
StoredAsGiven(vec) == vec

\* wristJoystickVector = -vec;
StoredWristVector(vec) == -vec

\* fingerJoystickVector = vec;
StoredFingerVector(vec) == vec

\* variants of the dead-zone test
CenteredWithoutFabs(v) == v < stickCenterTolerance

CenteredInclusive(v) == fabs(v) <= stickCenterTolerance

\* fabs(vector) < stickCenterTolerance
Centered(v) == fabs(v) < stickCenterTolerance

\* the timer after the dead-zone test of moveWrist / moveFingers
Commanded(t, v) ==
    IF Centered(v) THEN TimerStop(t) ELSE TimerStart(t, commandReapplyRate)

\* variant: a successful call also publishes the current angle at once
moveWristPublishingAtOnce(vec) ==
    /\ pc = "running"
    /\ UNCHANGED <<copy, deleted>>
    /\ ready
    /\ joystickGripperWristControlTimer.valid
    /\ lastCall' = Call("moveWrist", vec, "", 0)
    /\ wristJoystickVector' = StoredWristVector(vec)
    /\ joystickGripperWristControlTimer' =
           Commanded(joystickGripperWristControlTimer, wristJoystickVector')
    /\ events' = Publish(gripperWristAnglePublisher, wristAngle)
    /\ UNCHANGED <<pc, ready, roverName, wristAngle, fingerAngle,
                   fingerJoystickVector, joystickGripperFingerControlTimer,
                   gripperWristAnglePublisher, gripperFingerAnglePublisher>>

moveWrist(vec) ==
    /\ pc = "running"
    /\ UNCHANGED <<copy, deleted>>
    /\ lastCall' = Call("moveWrist", vec, "", 0)
    /\ IF NotReady
       THEN /\ events' = Thrown
            /\ UNCHANGED <<pc, ready, roverName, wristAngle, fingerAngle,
                           wristJoystickVector, fingerJoystickVector,
                           joystickGripperWristControlTimer,
                           joystickGripperFingerControlTimer,
                           gripperWristAnglePublisher, gripperFingerAnglePublisher>>
       ELSE /\ wristJoystickVector' = StoredWristVector(vec)
            /\ events' = <<>>
            /\ IF joystickGripperWristControlTimer.valid
               THEN /\ joystickGripperWristControlTimer' =
                           Commanded(joystickGripperWristControlTimer,
                                     wristJoystickVector')
                    /\ pc' = pc
               ELSE \* stop()/start() through a pointer that was never set
                    /\ pc' \in {"running", "crashed"}
                    /\ UNCHANGED joystickGripperWristControlTimer
            /\ UNCHANGED <<ready, roverName, wristAngle, fingerAngle,
                           fingerJoystickVector, joystickGripperFingerControlTimer,
                           gripperWristAnglePublisher, gripperFingerAnglePublisher>>

\* variant: the dead-zone test of moveFingers acts on the wrist timer
moveFingersOnWristTimer(vec) ==
    /\ pc = "running"
    /\ UNCHANGED <<copy, deleted>>
    /\ ready
    /\ joystickGripperWristControlTimer.valid
    /\ lastCall' = Call("moveFingers", vec, "", 0)
    /\ fingerJoystickVector' = StoredFingerVector(vec)
    /\ joystickGripperWristControlTimer' =
           Commanded(joystickGripperWristControlTimer, fingerJoystickVector')
    /\ events' = <<>>
    /\ UNCHANGED <<pc, ready, roverName, wristAngle, fingerAngle,
                   wristJoystickVector, joystickGripperFingerControlTimer,
                   gripperWristAnglePublisher, gripperFingerAnglePublisher>>

moveFingers(vec) ==
    /\ pc = "running"
    /\ UNCHANGED <<copy, deleted>>
    /\ lastCall' = Call("moveFingers", vec, "", 0)
    /\ IF NotReady
       THEN /\ events' = Thrown
            /\ UNCHANGED <<pc, ready, roverName, wristAngle, fingerAngle,
                           wristJoystickVector, fingerJoystickVector,
                           joystickGripperWristControlTimer,
                           joystickGripperFingerControlTimer,
                           gripperWristAnglePublisher, gripperFingerAnglePublisher>>
       ELSE /\ fingerJoystickVector' = StoredFingerVector(vec)
            /\ events' = <<>>
            /\ IF joystickGripperFingerControlTimer.valid
               THEN /\ joystickGripperFingerControlTimer' =
                           Commanded(joystickGripperFingerControlTimer,
                                     fingerJoystickVector')
                    /\ pc' = pc
               ELSE /\ pc' \in {"running", "crashed"}
                    /\ UNCHANGED joystickGripperFingerControlTimer
            /\ UNCHANGED <<ready, roverName, wristAngle, fingerAngle,
                           wristJoystickVector, joystickGripperWristControlTimer,
                           gripperWristAnglePublisher, gripperFingerAnglePublisher>>

(* ---- the timer handlers ----------------------------------------------- *)
\* variant: no clamp
Unclamped(angle, lo, hi) == angle

\* if (angle > max) angle = max; else if (angle < min) angle = min;
Clamped(angle, lo, hi) ==
    IF angle > hi THEN hi ELSE IF angle < lo THEN lo ELSE angle

\* variant: no snap to zero
Unsnapped(angle) == angle

\* variant: the snap threshold is 0.01
SnappedBelowHundredth(angle) == IF fabs(angle) < 10 * SmallAngle THEN 0 ELSE angle

\* if (fabs(angle) < 0.001) angle = 0.0f;
Snapped(angle) == IF fabs(angle) < SmallAngle THEN 0 ELSE angle

\* variant: the change rate is not applied
TickAngleFullStep(angle, vector, rate, lo, hi) ==
    Snapped(Clamped(angle + vector, lo, hi))

\* variant: the step is subtracted
TickAngleWrongSign(angle, vector, rate, lo, hi) ==
    Snapped(Clamped(angle - Mul(vector, rate), lo, hi))

\* the angle a handler stores and publishes
TickAngle(angle, vector, rate, lo, hi) ==
    Snapped(Clamped(angle + Mul(vector, rate), lo, hi))

joystickGripperWristControlTimerEventHandler ==
    /\ pc = "running"
    /\ UNCHANGED <<copy, deleted>>
    /\ Due(joystickGripperWristControlTimer)
    /\ wristAngle' = TickAngle(wristAngle, wristJoystickVector,
                               wristAngleChangeRate, wristAngleMin, wristAngleMax)
    /\ events' = Publish(gripperWristAnglePublisher, wristAngle')
    /\ joystickGripperWristControlTimer' = TimerRearm(joystickGripperWristControlTimer)
    /\ lastCall' = Call("wristTick", 0, "", wristAngle)
    /\ UNCHANGED <<pc, ready, roverName, fingerAngle, wristJoystickVector,
                   fingerJoystickVector, joystickGripperFingerControlTimer,
                   gripperWristAnglePublisher, gripperFingerAnglePublisher>>

joystickGripperFingerControlTimerEventHandler ==
    /\ pc = "running"
    /\ UNCHANGED <<copy, deleted>>
    /\ Due(joystickGripperFingerControlTimer)
    /\ fingerAngle' = TickAngle(fingerAngle, fingerJoystickVector,
                                fingerAngleChangeRate, fingerAngleMin, fingerAngleMax)
    /\ events' = Publish(gripperFingerAnglePublisher, fingerAngle')
    /\ joystickGripperFingerControlTimer' = TimerRearm(joystickGripperFingerControlTimer)
    /\ lastCall' = Call("fingerTick", 0, "", fingerAngle)
    /\ UNCHANGED <<pc, ready, roverName, wristAngle, wristJoystickVector,
                   fingerJoystickVector, joystickGripperWristControlTimer,
                   gripperWristAnglePublisher, gripperFingerAnglePublisher>>

(* ---- changeRovers ----------------------------------------------------- *)
changeRovers(name) ==
    /\ pc = "running"
    /\ UNCHANGED deleted
    /\ lastCall' = Call("changeRovers", 0, name, 0)
    /\ IF joystickGripperWristControlTimer.valid /\ joystickGripperFingerControlTimer.valid
       THEN pc' = pc
       ELSE \* ->stop() through a pointer that was never set
            pc' \in {"running", "crashed"}
    /\ IF pc' = "crashed"
       THEN \* ready = false was executed, nothing after the bad call was
            /\ ready' = FALSE
            /\ events' = <<>>
            /\ UNCHANGED <<roverName, wristAngle, fingerAngle, wristJoystickVector,
                           fingerJoystickVector, joystickGripperWristControlTimer,
                           joystickGripperFingerControlTimer,
                           gripperWristAnglePublisher, gripperFingerAnglePublisher,
                           copy>>
       ELSE /\ joystickGripperWristControlTimer' =
                   IF joystickGripperWristControlTimer.valid
                   THEN TimerStop(joystickGripperWristControlTimer)
                   ELSE joystickGripperWristControlTimer
            /\ joystickGripperFingerControlTimer' =
                   IF joystickGripperFingerControlTimer.valid
                   THEN TimerStop(joystickGripperFingerControlTimer)
                   ELSE joystickGripperFingerControlTimer
            /\ fingerAngle' = 0
            /\ wristAngle' = 0
            /\ fingerJoystickVector' = 0
            /\ wristJoystickVector' = 0
            /\ roverName' = name
            /\ gripperWristAnglePublisher' = AdvertiseWrist(name)
            /\ gripperFingerAnglePublisher' = AdvertiseFinger(name)
            /\ events' = Shutdown(gripperWristAnglePublisher)
                           \o Shutdown(gripperFingerAnglePublisher)
                           \o Advertised(gripperWristAnglePublisher')
                           \o Advertised(gripperFingerAnglePublisher')
            \* shutdown() closed the channels a copy still refers to
            /\ copy' = [copy EXCEPT !.publishers = FALSE]
            /\ ready' = TRUE

(* ---- copy constructor and destructor ---------------------------------- *)
\* ros::Publisher copies share one implementation: after shutdown() through
\* one of them the others are invalid
Unadvertised(pub) == [pub EXCEPT !.valid = FALSE]

\* delete applied through a pointer: counted when the pointer refers to a
\* QTimer the constructor made, live or already deleted
Deleting(n, refers) == IF refers THEN n + 1 ELSE n

\* JoystickGripperInterface(const JoystickGripperInterface& source): the
\* publishers and the two QTimer pointers are copied member by member;
\* ready and roverName are not assigned.  The copy is followed from its
\* making to its destruction; no other member is called on it.
copyConstructor ==
    /\ pc = "running"
    /\ copy.state = "none"
    /\ \E r \in BOOLEAN :
         copy' = [state |-> "live",
                  ready |-> r,
                  timers |-> joystickGripperWristControlTimer.valid
                                 /\ joystickGripperFingerControlTimer.valid,
                  publishers |-> gripperWristAnglePublisher.valid
                                     /\ gripperFingerAnglePublisher.valid]
    /\ lastCall' = Call("JoystickGripperInterface(source)", 0, "", 0)
    /\ events' = <<>>
    /\ UNCHANGED <<pc, ready, roverName, wristAngle, fingerAngle, wristJoystickVector,
                   fingerJoystickVector, joystickGripperWristControlTimer,
                   joystickGripperFingerControlTimer, gripperWristAnglePublisher,
                   gripperFingerAnglePublisher, deleted>>

\* ~JoystickGripperInterface() of the copy
copyDestructor ==
    /\ pc \in {"running", "destroyed"}
    /\ copy.state = "live"
    /\ lastCall' = Call("~JoystickGripperInterface(copy)", 0, "", 0)
    /\ IF copy.timers /\ deleted.wrist = 0 /\ deleted.finger = 0
       THEN pc' = pc
       ELSE \* delete through a pointer that was never set, or a second
            \* delete of the same QTimer
            pc' \in {pc, "crashed"}
    /\ IF pc' = "crashed"
       THEN \* ready = false was executed, nothing after the bad delete was
            /\ copy' = [copy EXCEPT !.ready = FALSE]
            /\ deleted' = [deleted EXCEPT !.wrist = Deleting(@, copy.timers)]
            /\ events' = <<>>
            /\ UNCHANGED <<ready, roverName, wristAngle, fingerAngle,
                           wristJoystickVector, fingerJoystickVector,
                           joystickGripperWristControlTimer,
                           joystickGripperFingerControlTimer,
                           gripperWristAnglePublisher, gripperFingerAnglePublisher>>
       ELSE /\ copy' = [state |-> "destroyed", ready |-> FALSE,
                        timers |-> FALSE, publishers |-> FALSE]
            /\ deleted' = [wrist |-> Deleting(deleted.wrist, copy.timers),
                           finger |-> Deleting(deleted.finger, copy.timers)]
            /\ joystickGripperWristControlTimer' =
                   IF copy.timers THEN NoTimer ELSE joystickGripperWristControlTimer
            /\ joystickGripperFingerControlTimer' =
                   IF copy.timers THEN NoTimer ELSE joystickGripperFingerControlTimer
            /\ gripperWristAnglePublisher' =
                   IF copy.publishers THEN Unadvertised(gripperWristAnglePublisher)
                   ELSE gripperWristAnglePublisher
            /\ gripperFingerAnglePublisher' =
                   IF copy.publishers THEN Unadvertised(gripperFingerAnglePublisher)
                   ELSE gripperFingerAnglePublisher
            /\ events' = IF copy.publishers
                         THEN Shutdown(gripperWristAnglePublisher)
                                  \o Shutdown(gripperFingerAnglePublisher)
                         ELSE <<>>
            /\ UNCHANGED <<ready, roverName, wristAngle, fingerAngle,
                           wristJoystickVector, fingerJoystickVector>>

\* ~JoystickGripperInterface()
destructor ==
    /\ pc = "running"
    /\ lastCall' = Call("~JoystickGripperInterface", 0, "", 0)
    /\ ready' = FALSE
    /\ IF joystickGripperWristControlTimer.valid /\ joystickGripperFingerControlTimer.valid
       THEN pc' = "destroyed"
       ELSE \* delete through a pointer that was never set, or a second
            \* delete of the same QTimer
            pc' \in {"destroyed", "crashed"}
    /\ IF pc' = "crashed"
       THEN /\ deleted' = [deleted EXCEPT !.wrist = Deleting(@, @ > 0)]
            /\ events' = <<>>
            /\ UNCHANGED <<roverName, wristAngle, fingerAngle, wristJoystickVector,
                           fingerJoystickVector, joystickGripperWristControlTimer,
                           joystickGripperFingerControlTimer,
                           gripperWristAnglePublisher, gripperFingerAnglePublisher,
                           copy>>
       ELSE /\ deleted' =
                   [wrist |-> Deleting(deleted.wrist,
                                       joystickGripperWristControlTimer.valid
                                           \/ deleted.wrist > 0),
                    finger |-> Deleting(deleted.finger,
                                        joystickGripperFingerControlTimer.valid
                                            \/ deleted.finger > 0)]
            /\ joystickGripperWristControlTimer' = NoTimer
            /\ joystickGripperFingerControlTimer' = NoTimer
            /\ gripperWristAnglePublisher' = NoPublisher
            /\ gripperFingerAnglePublisher' = NoPublisher
            /\ events' = Shutdown(gripperWristAnglePublisher)
                           \o Shutdown(gripperFingerAnglePublisher)
            /\ copy' = [copy EXCEPT !.publishers = FALSE]
            /\ UNCHANGED <<roverName, wristAngle, fingerAngle, wristJoystickVector,
                           fingerJoystickVector>>

(* ---- the event loop's clock ------------------------------------------- *)
Waiting(t) == t.valid /\ t.active /\ t.remaining > 0

Elapse(t) == IF Waiting(t) THEN [t EXCEPT !.remaining = @ - 1] ELSE t

\* one clock step passes; a timer that is due is dispatched before the
\* clock moves on
TimeAdvance ==
    /\ pc = "running"
    /\ UNCHANGED <<copy, deleted>>
    /\ Waiting(joystickGripperWristControlTimer) \/ Waiting(joystickGripperFingerControlTimer)
    /\ ~Due(joystickGripperWristControlTimer)
    /\ ~Due(joystickGripperFingerControlTimer)
    /\ joystickGripperWristControlTimer' = Elapse(joystickGripperWristControlTimer)
    /\ joystickGripperFingerControlTimer' = Elapse(joystickGripperFingerControlTimer)
    /\ lastCall' = Call("elapse", 0, "", 0)
    /\ events' = <<>>
    /\ UNCHANGED <<pc, ready, roverName, wristAngle, fingerAngle, wristJoystickVector,
                   fingerJoystickVector, gripperWristAnglePublisher,
                   gripperFingerAnglePublisher>>

(* ---- specifications --------------------------------------------------- *)
MoveWrist == \E vec \in Vecs : moveWrist(vec)

MoveFingers == \E vec \in Vecs : moveFingers(vec)

ChangeRovers == \E name \in Rovers : changeRovers(name)

Next ==
    \/ MoveWrist
    \/ MoveFingers
    \/ joystickGripperWristControlTimerEventHandler
    \/ joystickGripperFingerControlTimerEventHandler
    \/ ChangeRovers
    \/ TimeAdvance

Spec == Init /\ [][Next]_vars

\* The Qt event loop keeps running: the clock advances and a timer that is
\* due is dispatched.  Nothing obliges the joystick to send samples.
FairSpec ==
    /\ Spec
    /\ WF_vars(TimeAdvance)
    /\ WF_vars(joystickGripperWristControlTimerEventHandler)
    /\ WF_vars(joystickGripperFingerControlTimerEventHandler)

\* One joint driven with finely spaced samples; the other stick is not touched.
FineMoveWrist == \E vec \in FineVecs : moveWrist(vec)

NextWrist ==
    \/ FineMoveWrist
    \/ joystickGripperWristControlTimerEventHandler
    \/ ChangeRovers
    \/ TimeAdvance

SpecWrist == Init /\ [][NextWrist]_vars

FineMoveFingers == \E vec \in FineVecs : moveFingers(vec)

NextFingers ==
    \/ FineMoveFingers
    \/ joystickGripperFingerControlTimerEventHandler
    \/ ChangeRovers
    \/ TimeAdvance

SpecFingers == Init /\ [][NextFingers]_vars

\* Bursts of finely spaced samples on both sticks that arrive within one
\* clock step, so no timer comes due in between.
NextSticks ==
    \/ FineMoveWrist
    \/ FineMoveFingers
    \/ ChangeRovers

SpecSticks == Init /\ [][NextSticks]_vars

\* Both sticks pushed fully either way or let go, with the event loop
\* delivering time and timeouts fairly.
HeldVecs == {-10000, 200, 10000}

HeldMoveWrist == \E vec \in HeldVecs : moveWrist(vec)

HeldMoveFingers == \E vec \in HeldVecs : moveFingers(vec)

NextHeld ==
    \/ HeldMoveWrist
    \/ HeldMoveFingers
    \/ joystickGripperWristControlTimerEventHandler
    \/ joystickGripperFingerControlTimerEventHandler
    \/ ChangeRovers
    \/ TimeAdvance

FairSpecHeld ==
    /\ Init /\ [][NextHeld]_vars
    /\ WF_vars(TimeAdvance)
    /\ WF_vars(joystickGripperWristControlTimerEventHandler)
    /\ WF_vars(joystickGripperFingerControlTimerEventHandler)

\* A controller that may be copied once, and the two objects destroyed in
\* either order, while the sticks are pushed fully or let go.
NextLife ==
    \/ HeldMoveWrist
    \/ HeldMoveFingers
    \/ joystickGripperWristControlTimerEventHandler
    \/ joystickGripperFingerControlTimerEventHandler
    \/ ChangeRovers
    \/ TimeAdvance
    \/ copyConstructor
    \/ copyDestructor
    \/ destructor

SpecLife == Init /\ [][NextLife]_vars

(* ====================================================================== *)
(* Properties                                                             *)
(* ====================================================================== *)
\* the object was built by JoystickGripperInterface(nh, roverName): only
\* that constructor creates the timers
Built ==
    joystickGripperWristControlTimer.valid /\ joystickGripperFingerControlTimer.valid

\* the values the last handler published on a joint's channel
PublishedOn(joint) ==
    {events[i].data : i \in {j \in DOMAIN events :
                                 events[j].ev = "publish" /\ events[j].topic[2] = joint}}

\* the rovers whose channel of a joint the last handler published on
PublishedTo(joint) ==
    {events[i].topic[1] : i \in {j \in DOMAIN events :
                                     events[j].ev = "publish" /\ events[j].topic[2] = joint}}

Returned(op) == lastCall.op = op /\ pc = "running" /\ events # Thrown

(* ---------------------------------------------------------------------- *)
\* C1: for a controller built with the (node handle, rover name)
\* constructor the wrist angle stays within 0.0..1.0 and the finger angle
\* within 0.0..2.0 in every state, and every value a timer handler
\* publishes lies within the bounds of its joint.
C1_AnglesWithinBounds ==
    Built =>
        /\ 0 <= wristAngle /\ wristAngle <= One
        /\ 0 <= fingerAngle /\ fingerAngle <= 2 * One
        /\ \A d \in PublishedOn("wristAngle") : 0 <= d /\ d <= One
        /\ \A d \in PublishedOn("fingerAngle") : 0 <= d /\ d <= 2 * One

\* the finger handler ran at 1.95 with vector 1.0 and the angle is 2.0
C1_Witness ==
    /\ lastCall.op = "fingerTick"
    /\ lastCall.from = 19500
    /\ fingerJoystickVector = One
    /\ fingerAngle = 2 * One
    /\ PublishedOn("fingerAngle") = {2 * One}

(* ---------------------------------------------------------------------- *)
\* a step in which the stick of a joint stays inside the dead zone: the
\* stored vector is below 0.05 and the step is not a setVelocity that
\* stores a vector at or above 0.05
WristStaysCentered ==
    /\ fabs(wristJoystickVector) < 500
    /\ ~(lastCall'.op = "moveWrist" /\ fabs(wristJoystickVector') >= 500)

FingersStayCentered ==
    /\ fabs(fingerJoystickVector) < 500
    /\ ~(lastCall'.op = "moveFingers" /\ fabs(fingerJoystickVector') >= 500)

\* a setVelocity that stored a vector below 0.05 leaves the timer stopped
CenteredStopsTimer ==
    /\ (Returned("moveWrist")' /\ fabs(wristJoystickVector') < 500)
          => ~joystickGripperWristControlTimer'.active
    /\ (Returned("moveFingers")' /\ fabs(fingerJoystickVector') < 500)
          => ~joystickGripperFingerControlTimer'.active

\* C2 as stated: a setVelocity whose stored vector is below the dead zone
\* stops the joint's timer at once, and from then on, until a setVelocity
\* at or above the dead zone, no tick of the joint runs, its angle does not
\* change and nothing is published for it.
C2_AngleFrozenUntilSetVelocity ==
    [][ /\ CenteredStopsTimer
        /\ WristStaysCentered =>
              /\ lastCall'.op # "wristTick"
              /\ PublishedOn("wristAngle")' = {}
              /\ wristAngle' = wristAngle
        /\ FingersStayCentered =>
              /\ lastCall'.op # "fingerTick"
              /\ PublishedOn("fingerAngle")' = {}
              /\ fingerAngle' = fingerAngle ]_vars

\* C2 (amended): as above, except that a changeRovers call in between
\* resets the angle to 0; the timer stays stopped, no tick runs and nothing
\* is published for the joint.
C2_DeadZoneStopsTimer ==
    [][ /\ CenteredStopsTimer
        /\ WristStaysCentered =>
              /\ lastCall'.op # "wristTick"
              /\ PublishedOn("wristAngle")' = {}
              /\ ~joystickGripperWristControlTimer'.active
              /\ \/ wristAngle' = wristAngle
                 \/ Returned("changeRovers")' /\ wristAngle' = 0
        /\ FingersStayCentered =>
              /\ lastCall'.op # "fingerTick"
              /\ PublishedOn("fingerAngle")' = {}
              /\ ~joystickGripperFingerControlTimer'.active
              /\ \/ fingerAngle' = fingerAngle
                 \/ Returned("changeRovers")' /\ fingerAngle' = 0 ]_vars

\* moveWrist(0.02) has just stopped the timer of a wrist that had been
\* started and had moved to 0.5
C2_Witness ==
    /\ Returned("moveWrist")
    /\ lastCall.vec = 200
    /\ wristJoystickVector = -200
    /\ wristAngle = 5000
    /\ joystickGripperWristControlTimer.interval = commandReapplyRate
    /\ ~joystickGripperWristControlTimer.active

(* ---------------------------------------------------------------------- *)
\* C3: while the stick of a joint is held deflected (its timer is running
\* and is not stopped by a centered sample or a changeRovers), a tick that
\* publishes the joint's angle eventually occurs, however often setVelocity
\* samples arrive in between.
C3_DeflectedStickKeepsPublishing ==
    /\ joystickGripperWristControlTimer.active
          ~> (PublishedOn("wristAngle") # {} \/ ~joystickGripperWristControlTimer.active)
    /\ joystickGripperFingerControlTimer.active
          ~> (PublishedOn("fingerAngle") # {} \/ ~joystickGripperFingerControlTimer.active)

(* ---------------------------------------------------------------------- *)
\* C4: moveWrist or moveFingers called while ready is false throws the
\* not-ready exception and changes nothing: both vectors, both angles and
\* both timers are as before the call, and nothing is published.
C4_NotReadyThrowsAndChangesNothing ==
    [][ (~ready /\ lastCall'.op \in {"moveWrist", "moveFingers"}) =>
            /\ events' = Thrown
            /\ UNCHANGED <<wristJoystickVector, fingerJoystickVector,
                           wristAngle, fingerAngle,
                           joystickGripperWristControlTimer,
                           joystickGripperFingerControlTimer,
                           ready, roverName, pc,
                           gripperWristAnglePublisher,
                           gripperFingerAnglePublisher>> ]_vars

\* moveFingers(1.0) has thrown on a default-constructed controller
C4_Witness ==
    /\ lastCall.op = "moveFingers"
    /\ lastCall.vec = One
    /\ events = Thrown
    /\ ~ready
    /\ ~Built
    /\ fingerJoystickVector \in Indeterminate

(* ---------------------------------------------------------------------- *)
\* the bus operations of a retarget to rover `name` from publishers w, f:
\* the open ones are closed, then both channels of `name` are opened
RetargetEvents(w, f, name) ==
    (IF w.valid THEN <<[ev |-> "shutdown", topic |-> w.topic, data |-> 0]>> ELSE <<>>)
    \o (IF f.valid THEN <<[ev |-> "shutdown", topic |-> f.topic, data |-> 0]>> ELSE <<>>)
    \o <<[ev |-> "advertise", topic |-> <<name, "wristAngle">>, data |-> 0],
         [ev |-> "advertise", topic |-> <<name, "fingerAngle">>, data |-> 0]>>

\* C5: when changeRovers(name) returns, from any prior state, both angles
\* and both vectors are 0, both timers are stopped, ready is true, and both
\* publishers were newly opened during the call and are bound to name;
\* a second changeRovers with the same name leaves the state of the first.
C5_RetargetResets ==
    [][ Returned("changeRovers")' =>
            /\ wristAngle' = 0 /\ fingerAngle' = 0
            /\ wristJoystickVector' = 0 /\ fingerJoystickVector' = 0
            /\ ~joystickGripperWristControlTimer'.active
            /\ ~joystickGripperFingerControlTimer'.active
            /\ ready'
            /\ roverName' = lastCall'.name
            /\ gripperWristAnglePublisher' =
                   [valid |-> TRUE, topic |-> <<lastCall'.name, "wristAngle">>]
            /\ gripperFingerAnglePublisher' =
                   [valid |-> TRUE, topic |-> <<lastCall'.name, "fingerAngle">>]
            /\ events' = RetargetEvents(gripperWristAnglePublisher,
                                        gripperFingerAnglePublisher, lastCall'.name)
            /\ (Returned("changeRovers") /\ lastCall.name = lastCall'.name) =>
                   UNCHANGED <<pc, ready, roverName, wristAngle, fingerAngle,
                               wristJoystickVector, fingerJoystickVector,
                               joystickGripperWristControlTimer,
                               joystickGripperFingerControlTimer,
                               gripperWristAnglePublisher,
                               gripperFingerAnglePublisher>> ]_vars

\* changeRovers("ajax") has returned on a controller that was publishing
\* for achilles with the wrist timer started
C5_Witness ==
    /\ Returned("changeRovers")
    /\ lastCall.name = "ajax"
    /\ Len(events) = 4
    /\ events[1] = [ev |-> "shutdown", topic |-> <<"achilles", "wristAngle">>, data |-> 0]
    /\ joystickGripperWristControlTimer.interval = commandReapplyRate
    /\ gripperWristAnglePublisher.topic = <<"ajax", "wristAngle">>

(* ---------------------------------------------------------------------- *)
\* C6: every message is published on a channel of the rover named by the
\* latest changeRovers (never on a previous rover's channel) and while
\* ready is true; changeRovers itself publishes nothing; and a joint
\* publishes only with a vector at or above the dead zone, which after the
\* reset of changeRovers only a fresh setVelocity can have stored.
C6_NoStaleCommands ==
    /\ PublishedTo("wristAngle") \subseteq {roverName}
    /\ PublishedTo("fingerAngle") \subseteq {roverName}
    /\ (PublishedOn("wristAngle") # {} \/ PublishedOn("fingerAngle") # {}) => ready
    /\ lastCall.op = "changeRovers" =>
           PublishedOn("wristAngle") = {} /\ PublishedOn("fingerAngle") = {}
    /\ PublishedOn("wristAngle") # {} => fabs(wristJoystickVector) >= 500
    /\ PublishedOn("fingerAngle") # {} => fabs(fingerJoystickVector) >= 500

\* after a retarget from achilles to ajax the wrist handler has published
\* its first step, on ajax's channel
C6_Witness ==
    /\ lastCall.op = "wristTick"
    /\ lastCall.from = 0
    /\ roverName = "ajax"
    /\ events = <<[ev |-> "publish", topic |-> <<"ajax", "wristAngle">>, data |-> 1000]>>
    /\ fingerAngle = 0

(* ---------------------------------------------------------------------- *)
\* C7: changeRovers has no precondition: called on any controller, also a
\* default-constructed one whose ready flag is false and whose timers and
\* publishers were never created, it completes and leaves ready true.
C7_ChangeRoversAlwaysCompletes ==
    lastCall.op = "changeRovers" => (pc = "running" /\ ready)

(* ---------------------------------------------------------------------- *)
\* clamp(angle + vector * 0.1, lo, hi) as the claim writes it
ClampedStep(angle, vector, lo, hi) ==
    LET sum == angle + vector \div 10
    IN  IF sum < lo THEN lo ELSE IF sum > hi THEN hi ELSE sum

OnePublish(joint, value) ==
    /\ Len(events) = 1
    /\ events[1].ev = "publish"
    /\ events[1].topic = <<roverName, joint>>
    /\ events[1].data = value

\* C8 as stated: each tick of a joint sets its angle to
\* clamp(angle + velocityVector * 0.1, min, max) and publishes exactly that
\* value once.
C8_TickIsClampedStep ==
    /\ lastCall.op = "wristTick" =>
           /\ wristAngle = ClampedStep(lastCall.from, wristJoystickVector, 0, One)
           /\ OnePublish("wristAngle", wristAngle)
    /\ lastCall.op = "fingerTick" =>
           /\ fingerAngle = ClampedStep(lastCall.from, fingerJoystickVector, 0, 2 * One)
           /\ OnePublish("fingerAngle", fingerAngle)

ZeroIfSmall(x) == IF -10 < x /\ x < 10 THEN 0 ELSE x

\* C8 (amended): each tick of a joint sets its angle to
\* clamp(angle + velocityVector * 0.1, min, max), or to 0.0 when that value
\* has magnitude below 0.001, and publishes exactly the stored value once.
C8_TickIsClampedStepOrZero ==
    /\ lastCall.op = "wristTick" =>
           /\ wristAngle =
                ZeroIfSmall(ClampedStep(lastCall.from, wristJoystickVector, 0, One))
           /\ OnePublish("wristAngle", wristAngle)
    /\ lastCall.op = "fingerTick" =>
           /\ fingerAngle =
                ZeroIfSmall(ClampedStep(lastCall.from, fingerJoystickVector, 0, 2 * One))
           /\ OnePublish("fingerAngle", fingerAngle)

\* the wrist, moved by moveWrist(-1.0) from 0, takes its fifth step, from
\* 0.4 to 0.5, and publishes 0.5
C8_Witness ==
    /\ lastCall.op = "wristTick"
    /\ lastCall.from = 4000
    /\ wristJoystickVector = One
    /\ wristAngle = 5000
    /\ OnePublish("wristAngle", 5000)

(* ---------------------------------------------------------------------- *)
\* C9: on a ready controller moveWrist(v) stores wristJoystickVector = -v
\* and moveFingers(v) stores fingerJoystickVector = v, and either joint's
\* timer runs after the call exactly when |v| >= 0.05.
C9_WristVectorNegated ==
    /\ Returned("moveWrist") =>
           /\ wristJoystickVector = -lastCall.vec
           /\ Built => (joystickGripperWristControlTimer.active
                            <=> (lastCall.vec >= 500 \/ lastCall.vec <= -500))
    /\ Returned("moveFingers") =>
           /\ fingerJoystickVector = lastCall.vec
           /\ Built => (joystickGripperFingerControlTimer.active
                            <=> (lastCall.vec >= 500 \/ lastCall.vec <= -500))

\* moveWrist(0.05) has stored -0.05 and started the wrist timer
C9_Witness ==
    /\ Returned("moveWrist")
    /\ lastCall.vec = 500
    /\ wristJoystickVector = -500
    /\ joystickGripperWristControlTimer.active

(* ---------------------------------------------------------------------- *)
\* C10: a tick never stores or publishes a non-zero value of magnitude
\* below 0.001: when the clamped sum has magnitude below 0.001, exactly 0.0
\* is stored and published.
C10_SnapToZero ==
    /\ lastCall.op = "wristTick" =>
           /\ wristAngle = 0 \/ wristAngle >= 10 \/ wristAngle <= -10
           /\ \A d \in PublishedOn("wristAngle") : d = 0 \/ d >= 10 \/ d <= -10
           /\ LET c == ClampedStep(lastCall.from, wristJoystickVector, 0, One)
              IN  (-10 < c /\ c < 10) =>
                      wristAngle = 0 /\ PublishedOn("wristAngle") = {0}
    /\ lastCall.op = "fingerTick" =>
           /\ fingerAngle = 0 \/ fingerAngle >= 10 \/ fingerAngle <= -10
           /\ \A d \in PublishedOn("fingerAngle") : d = 0 \/ d >= 10 \/ d <= -10
           /\ LET c == ClampedStep(lastCall.from, fingerJoystickVector, 0, 2 * One)
              IN  (-10 < c /\ c < 10) =>
                      fingerAngle = 0 /\ PublishedOn("fingerAngle") = {0}

\* the fingers at 0.1 with vector -0.995 compute 0.0005; 0.0 is stored and
\* published
C10_Witness ==
    /\ lastCall.op = "fingerTick"
    /\ lastCall.from = 1000
    /\ fingerJoystickVector = -9950
    /\ fingerAngle = 0
    /\ PublishedOn("fingerAngle") = {0}

(* ---------------------------------------------------------------------- *)
\* the members a successful moveWrist must leave alone, and likewise
\* moveFingers
OutsideWristCommand ==
    <<pc, ready, roverName, wristAngle, fingerAngle, fingerJoystickVector,
      joystickGripperFingerControlTimer, gripperWristAnglePublisher,
      gripperFingerAnglePublisher>>

OutsideFingerCommand ==
    <<pc, ready, roverName, wristAngle, fingerAngle, wristJoystickVector,
      joystickGripperWristControlTimer, gripperWristAnglePublisher,
      gripperFingerAnglePublisher>>

\* C11: moveWrist and moveFingers never publish and never change an angle;
\* a successful call changes only that joint's vector and that joint's
\* timer; an angle changes only in a timer handler or in changeRovers, and
\* a message is published only by a timer handler.
C11_SetVelocityOnlySetsVectorAndTimer ==
    [][ /\ lastCall'.op \in {"moveWrist", "moveFingers"} =>
              /\ PublishedOn("wristAngle")' = {}
              /\ PublishedOn("fingerAngle")' = {}
              /\ UNCHANGED <<wristAngle, fingerAngle>>
        /\ Returned("moveWrist")' => UNCHANGED OutsideWristCommand
        /\ Returned("moveFingers")' => UNCHANGED OutsideFingerCommand
        /\ (wristAngle' # wristAngle \/ fingerAngle' # fingerAngle) =>
              lastCall'.op \in {"wristTick", "fingerTick", "changeRovers"}
        /\ (PublishedOn("wristAngle")' # {} \/ PublishedOn("fingerAngle")' # {}) =>
              lastCall'.op \in {"wristTick", "fingerTick"} ]_vars

\* moveWrist(-1.0) has returned on a wrist at 0.5: the vector is 1.0, the
\* timer is started, the angle is still 0.5 and nothing was published
C11_Witness ==
    /\ Returned("moveWrist")
    /\ lastCall.vec = -One
    /\ wristJoystickVector = One
    /\ joystickGripperWristControlTimer.active
    /\ wristAngle = 5000
    /\ events = <<>>

(* ---------------------------------------------------------------------- *)
\* C12: a setVelocity at or above the dead zone on a joint whose timer is
\* already running leaves the timer as it was: still running, the interval
\* 100 ms, and the time left until its pending tick unchanged.
C12_RestartKeepsPendingTick ==
    [][ /\ (/\ joystickGripperWristControlTimer.active
            /\ Returned("moveWrist")'
            /\ fabs(wristJoystickVector') >= 500) =>
               /\ joystickGripperWristControlTimer'.active
               /\ joystickGripperWristControlTimer'.interval = 100
               /\ joystickGripperWristControlTimer'.remaining =
                      joystickGripperWristControlTimer.remaining
        /\ (/\ joystickGripperFingerControlTimer.active
            /\ Returned("moveFingers")'
            /\ fabs(fingerJoystickVector') >= 500) =>
               /\ joystickGripperFingerControlTimer'.active
               /\ joystickGripperFingerControlTimer'.interval = 100
               /\ joystickGripperFingerControlTimer'.remaining =
                      joystickGripperFingerControlTimer.remaining ]_vars

(* ---------------------------------------------------------------------- *)
\* C15: for a controller built with the (node handle, rover name)
\* constructor, between operations a joint's timer is running exactly when
\* the magnitude of its stored vector is at or above 0.05 (so a vector of
\* exactly 0.05 makes the joint Active); the controller starts with both
\* vectors 0 and both timers stopped.
C15_ActiveIffDeflected ==
    Built =>
        /\ joystickGripperWristControlTimer.active
              <=> (wristJoystickVector >= 500 \/ wristJoystickVector <= -500)
        /\ joystickGripperFingerControlTimer.active
              <=> (fingerJoystickVector >= 500 \/ fingerJoystickVector <= -500)
        /\ lastCall.op = "JoystickGripperInterface" =>
              /\ wristJoystickVector = 0 /\ fingerJoystickVector = 0
              /\ ~joystickGripperWristControlTimer.active
              /\ ~joystickGripperFingerControlTimer.active

\* the wrist, commanded with moveWrist(0.05), is Active and has ticked
C15_Witness ==
    /\ Built
    /\ wristJoystickVector = -500
    /\ joystickGripperWristControlTimer.active
    /\ lastCall.op = "wristTick"

(* ---------------------------------------------------------------------- *)
WristJoint == <<wristAngle, wristJoystickVector, joystickGripperWristControlTimer>>

FingerJoint == <<fingerAngle, fingerJoystickVector, joystickGripperFingerControlTimer>>

\* C17: moveWrist and the wrist handler leave the finger angle, vector and
\* timer unchanged and publish nothing on fingerAngle; moveFingers and the
\* finger handler leave the wrist angle, vector and timer unchanged and
\* publish nothing on wristAngle; a handler that changes the angle, vector
\* or running state of both joints is changeRovers.
C17_JointsIndependent ==
    [][ /\ lastCall'.op \in {"moveWrist", "wristTick"} =>
              UNCHANGED FingerJoint /\ PublishedOn("fingerAngle")' = {}
        /\ lastCall'.op \in {"moveFingers", "fingerTick"} =>
              UNCHANGED WristJoint /\ PublishedOn("wristAngle")' = {}
        /\ (/\ <<wristAngle, wristJoystickVector,
                 joystickGripperWristControlTimer.active>>' #
               <<wristAngle, wristJoystickVector,
                 joystickGripperWristControlTimer.active>>
            /\ <<fingerAngle, fingerJoystickVector,
                 joystickGripperFingerControlTimer.active>>' #
               <<fingerAngle, fingerJoystickVector,
                 joystickGripperFingerControlTimer.active>>) =>
              lastCall'.op = "changeRovers" ]_vars

\* the finger handler has stepped from 0 to 0.1 while the wrist is Active
\* at 0.5, half a period from its own tick
C17_Witness ==
    /\ lastCall.op = "fingerTick"
    /\ lastCall.from = 0
    /\ fingerAngle = 1000
    /\ wristAngle = 5000
    /\ wristJoystickVector = One
    /\ joystickGripperWristControlTimer.active
    /\ joystickGripperWristControlTimer.remaining = 1
    /\ events = <<[ev |-> "publish", topic |-> <<roverName, "fingerAngle">>, data |-> 1000]>>

(* ---------------------------------------------------------------------- *)
\* C18: a tick runs only with a vector of magnitude at least 0.05, so its
\* step has magnitude at least 0.005, and a tick of a joint that is not
\* already at the bound in the direction of motion moves the angle strictly
\* in that direction (from 0 with a positive vector to an angle above 0).
C18_SnapNeverTraps ==
    /\ lastCall.op = "wristTick" =>
           /\ wristJoystickVector \div 10 >= 50 \/ wristJoystickVector \div 10 <= -50
           /\ (wristJoystickVector > 0 /\ lastCall.from < One) =>
                  wristAngle > lastCall.from
           /\ (wristJoystickVector < 0 /\ lastCall.from > 0) =>
                  wristAngle < lastCall.from
    /\ lastCall.op = "fingerTick" =>
           /\ fingerJoystickVector \div 10 >= 50 \/ fingerJoystickVector \div 10 <= -50
           /\ (fingerJoystickVector > 0 /\ lastCall.from < 2 * One) =>
                  fingerAngle > lastCall.from
           /\ (fingerJoystickVector < 0 /\ lastCall.from > 0) =>
                  fingerAngle < lastCall.from

\* the fingers at 0 with the smallest Active vector, 0.05, step to 0.005
C18_Witness ==
    /\ lastCall.op = "fingerTick"
    /\ lastCall.from = 0
    /\ fingerJoystickVector = 500
    /\ fingerAngle = 50

(* ---------------------------------------------------------------------- *)
\* the last handler was a command to the joint or a retarget
WristCommanded == lastCall.op \in {"moveWrist", "changeRovers"}

FingersCommanded == lastCall.op \in {"moveFingers", "changeRovers"}

\* C16: an Active joint whose vector keeps its sign reaches the bound in
\* the direction of motion (max for a positive vector, min for a negative
\* one) unless a further setVelocity or changeRovers arrives first; and a
\* tick at that bound leaves the angle there and publishes the bound again.
C16_ReachesBoundAndStays ==
    /\ (joystickGripperWristControlTimer.active /\ wristJoystickVector > 0
            /\ ~WristCommanded) ~> (wristAngle = One \/ WristCommanded)
    /\ (joystickGripperWristControlTimer.active /\ wristJoystickVector < 0
            /\ ~WristCommanded) ~> (wristAngle = 0 \/ WristCommanded)
    /\ (joystickGripperFingerControlTimer.active /\ fingerJoystickVector > 0
            /\ ~FingersCommanded) ~> (fingerAngle = 2 * One \/ FingersCommanded)
    /\ (joystickGripperFingerControlTimer.active /\ fingerJoystickVector < 0
            /\ ~FingersCommanded) ~> (fingerAngle = 0 \/ FingersCommanded)
    /\ [](lastCall.op = "wristTick" =>
            /\ (lastCall.from = One /\ wristJoystickVector > 0) =>
                   wristAngle = One /\ PublishedOn("wristAngle") = {One}
            /\ (lastCall.from = 0 /\ wristJoystickVector < 0) =>
                   wristAngle = 0 /\ PublishedOn("wristAngle") = {0})
    /\ [](lastCall.op = "fingerTick" =>
            /\ (lastCall.from = 2 * One /\ fingerJoystickVector > 0) =>
                   fingerAngle = 2 * One /\ PublishedOn("fingerAngle") = {2 * One}
            /\ (lastCall.from = 0 /\ fingerJoystickVector < 0) =>
                   fingerAngle = 0 /\ PublishedOn("fingerAngle") = {0})

\* the fingers, held at full deflection, tick at 2.0 and publish 2.0 again
C16_Witness ==
    /\ lastCall.op = "fingerTick"
    /\ lastCall.from = 2 * One
    /\ fingerJoystickVector = One
    /\ fingerAngle = 2 * One
    /\ PublishedOn("fingerAngle") = {2 * One}

(* ---------------------------------------------------------------------- *)
(* C13: each timer and each publisher is held by one controller object    *)
(* only: no live copy holds the QTimer pointers or the publishers of the  *)
(* object it was copied from, and no QTimer is deleted twice.             *)
(* ---------------------------------------------------------------------- *)
C13_HandlesExclusivelyOwned ==
    /\ (pc = "running" /\ copy.state = "live") => ~copy.timers /\ ~copy.publishers
    /\ deleted.wrist <= 1
    /\ deleted.finger <= 1

(* ---------------------------------------------------------------------- *)
(* C14: the destructor of a controller that was never copied completes    *)
(* from every state, default-constructed included: ready is false, both   *)
(* timers are released once, both publishers are closed, and no timer is  *)
(* left to tick.                                                          *)
(* ---------------------------------------------------------------------- *)
C14_DestructionSafe ==
    (lastCall.op = "~JoystickGripperInterface" /\ copy.state = "none") =>
        /\ pc = "destroyed"
        /\ ~ready
        /\ ~joystickGripperWristControlTimer.valid
        /\ ~joystickGripperFingerControlTimer.valid
        /\ ~Due(joystickGripperWristControlTimer)
        /\ ~Due(joystickGripperFingerControlTimer)
        /\ ~gripperWristAnglePublisher.valid
        /\ ~gripperFingerAnglePublisher.valid
        /\ deleted.wrist <= 1
        /\ deleted.finger <= 1

(* ---------------------------------------------------------------------- *)
(* C19: ready is false after the default constructor and after the        *)
(* destructor, true after the (node handle, rover name) constructor and   *)
(* after every changeRovers that returns.  A controller that was given a  *)
(* rover name by either is ready in every state in which a handler can    *)
(* start, so moveWrist and moveFingers never throw on it, and no timer    *)
(* handler runs while ready is false.                                     *)
(* ---------------------------------------------------------------------- *)
C19_ReadyBetweenSetupAndTeardown ==
    /\ lastCall.op = "JoystickGripperInterface" => (ready <=> lastCall.name # "")
    /\ Returned("changeRovers") => ready
    /\ lastCall.op = "~JoystickGripperInterface" => ~ready
    /\ pc = "destroyed" => ~ready
    /\ (pc = "running" /\ roverName # "") => ready
    /\ (lastCall.op \in {"moveWrist", "moveFingers"} /\ roverName # "") => events # Thrown
    /\ lastCall.op \in {"wristTick", "fingerTick"} => ready

\* a controller retargeted to the second rover, moved by a tick and then
\* destroyed
C19_Witness ==
    /\ pc = "destroyed"
    /\ lastCall.op = "~JoystickGripperInterface"
    /\ roverName = "ajax"
    /\ wristAngle > 0
    /\ ~ready

====
